---- MODULE Spec2Model ----
(***************************************************************************)
(* Model of overseer/models.py: the status aggregation of Service, Event   *)
(* and EventUpdate rows, driven by the post_save and m2m_changed signal    *)
(* handlers.                                                               *)
(*                                                                         *)
(* Spec     : the handlers run one at a time, each to completion.          *)
(* SpecConc : two request threads run the handlers statement by statement  *)
(*            against the shared database rows.                            *)
(***************************************************************************)
EXTENDS Integers, Sequences, FiniteSets

\* ------------------------------------------------------------------ bounds
MaxUpdates == 2
MaxTime == 2
MaxStatusUpdates == 3

\* ------------------------------------------------------------ value domains
Severity == {0, 1, 2}
Services == {"s1", "s2"}
Events == {"e1", "e2"}
\* The service whose links the runs change; the other one stays unlinked
\* and is there for the handlers to leave alone.
Monitored == {"s1"}
Null == "NULL"
Messages == {"", "a"}
Times == 1..MaxTime
Procs == {"p1", "p2"}

VARIABLES
    events,     \* Event rows: pk -> [status, peak_status, description, message, date_updated]
    services,   \* Service rows: pk -> [status, date_updated]
    links,      \* rows of Event.services.through: <<service pk, event pk>>
    updates,    \* EventUpdate rows in insertion (id) order
    procs,      \* request threads: position and in-memory model instances
    last,       \* the operation that ran last, and the service status it found
    plan        \* the database two requests start from, and what each one runs

vars == <<events, services, links, updates, procs, last, plan>>

Max(S) == CHOOSE x \in S : \A y \in S : y <= x

\* Python truthiness of a nullable text field value
Falsy(x) == x = Null \/ x = ""

\* ------------------------------------------------------------ Event rows
NewEvent == [status |-> 0, peak_status |-> 0, description |-> Null,
             message |-> Null, date_updated |-> 0]

NewService == [status |-> 0, date_updated |-> 0]

NewUpdate(e, st, msg, ts) ==
    [event |-> e, status |-> st, message |-> msg, date_created |-> ts]

\* The rows of one event, in id order
UpdatesOf(log, e) == SelectSeq(log, LAMBDA r : r.event = e)

\* handle_update_save, lines 133-139
IsLatest(created, log, e) ==
    IF created
    THEN TRUE
    ELSE LET rows == UpdatesOf(log, e)
             first == CHOOSE i \in 1..Len(rows) :
                         \A j \in 1..Len(rows) :
                            rows[j].date_created <= rows[i].date_created
         IN  rows[first].event = e

\* update_kwargs gets 'description' (line 148)
SetsDescription_Always(ev) == TRUE

SetsDescription(ev) == Falsy(ev.description)

\* update_kwargs gets 'peak_status' (line 151)
SetsPeakStatus_NoGuard(ev, upd) == TRUE

SetsPeakStatus_Never(ev, upd) == FALSE

SetsPeakStatus(ev, upd) == ev.peak_status = 0 \/ ev.peak_status < upd.status

\* Event.objects.filter(pk=event.pk).update(**update_kwargs), and the setattr
\* loop: `row` is the record written (the database row, or the instance),
\* `ev` the in-memory instance the kwargs were computed from.
ApplyUpdateKwargs(row, ev, upd) ==
    [status |-> upd.status,
     date_updated |-> upd.date_created,
     message |-> upd.message,
     description |-> IF SetsDescription(ev)
                     THEN upd.message ELSE row.description,
     peak_status |-> IF SetsPeakStatus(ev, upd)
                     THEN upd.status ELSE row.peak_status]

\* ---------------------------------------------------------- Service rows
\* Event.objects.filter(services=self, status=self.status).exclude(pk=event.pk).exists()
OtherEventExists_AnyService(lk, evs, s, st, epk) ==
    \E e \in Events : e # epk /\ evs[e].status = st

OtherEventExists(lk, evs, s, st, epk) ==
    \E e \in Events : e # epk /\ <<s, e>> \in lk /\ evs[e].status = st

\* lines 65-69: the conditional UPDATE of date_updated on the stored row
DateRow_NoFilter(row, self, ev) ==
    IF ev.date_updated > self.date_updated
    THEN [row EXCEPT !.date_updated = ev.date_updated]
    ELSE row

DateRow_Never(row, self, ev) == row

DateRow(row, self, ev) ==
    IF ev.date_updated > self.date_updated /\ row.date_updated < ev.date_updated
    THEN [row EXCEPT !.date_updated = ev.date_updated]
    ELSE row

\* lines 65-69: the instance after the date step
DateSelf(self, ev) ==
    IF ev.date_updated > self.date_updated
    THEN [self EXCEPT !.date_updated = ev.date_updated]
    ELSE self

\* lines 71-76: the conditional UPDATE of status on the stored row
RaiseRow_Never(row, self, ev) == row

RaiseRow_Step(row, self, ev) ==
    IF ev.status > self.status /\ row.status < ev.status
    THEN [row EXCEPT !.status = row.status + 1]
    ELSE row

RaiseRow(row, self, ev) ==
    IF ev.status > self.status /\ row.status < ev.status
    THEN [row EXCEPT !.status = ev.status]
    ELSE row

\* lines 78-85: the decrease path takes effect
Lowers_NoExistsCheck(self, ev, exists) == ev.status < self.status

Lowers(self, ev, exists) == ev.status < self.status /\ ~exists

\* lines 83-84: the conditional UPDATE of status on the stored row
LowerRow_Never(row, self, ev, exists) == row

LowerRow(row, self, ev, exists) ==
    IF Lowers(self, ev, exists) /\ row.status > ev.status
    THEN [row EXCEPT !.status = ev.status]
    ELSE row

\* update_from_event run to completion on a freshly loaded instance: the
\* stored row afterwards.  `ev` is the event instance, `epk` its pk.
UpdateFromEvent(row, ev, epk, s, lk, evs) ==
    LET self0 == row
        row1  == DateRow(row, self0, ev)
        self1 == DateSelf(self0, ev)
        ex    == OtherEventExists(lk, evs, s, self1.status, epk)
    IN  LowerRow(RaiseRow(row1, self1, ev), self1, ev, ex)

\* ------------------------------------------------------------------ Init
NoUpdate == NewUpdate("e1", 0, Null, 0)

\* A request thread between operations: no instance in memory
Thread(pc) == [pc |-> pc, upd |-> NoUpdate, epk |-> "e1",
               ev |-> NewEvent, todo |-> {}, loaded |-> [s \in Services |-> NewService],
               s |-> "s1", self |-> NewService]

NoPlan == [db |-> [events |-> <<>>, services |-> <<>>, links |-> {}],
           ops |-> <<>>]

NoOp == [op |-> "none", s |-> "s1", e |-> "e1", was |-> 0]

Ran(op, s, e) == [op |-> op, s |-> s, e |-> e, was |-> services[s].status]

Init ==
    /\ events = [e \in Events |-> NewEvent]
    /\ services = [s \in Services |-> NewService]
    /\ links = {}
    /\ updates = <<>>
    /\ procs = [p \in Procs |-> Thread("idle")]
    /\ last = NoOp
    /\ plan = NoPlan

\* ------------------------------------------- operations, one at a time
\* (handle_event_save looping over every service, linked to the event or not)
AppendUpdate_AllServices(e, st, msg, ts) ==
    LET upd == NewUpdate(e, st, msg, ts)
        evs == [events EXCEPT ![e] = ApplyUpdateKwargs(events[e], events[e], upd)]
    IN  /\ Len(updates) < MaxUpdates
        /\ updates' = Append(updates, upd)
        /\ events' = evs
        /\ services' =
              [s \in Services |->
                 UpdateFromEvent(services[s], evs[e], e, s, links, evs)]
        /\ \E s \in Monitored : last' = Ran("append", s, e)
        /\ UNCHANGED <<links, procs, plan>>

\* EventUpdate created -> post_save -> Event.handle_update_save ->
\* post_save(Event) -> Service.handle_event_save
SaveUpdate(e, st, msg, ts) ==
    LET upd == NewUpdate(e, st, msg, ts)
        log == Append(updates, upd)
        ev  == events[e]
        evs == IF IsLatest(TRUE, log, e)
               THEN [events EXCEPT ![e] = ApplyUpdateKwargs(events[e], ev, upd)]
               ELSE events
    IN  /\ updates' = log
        /\ events' = evs
        /\ services' =
              [s \in Services |->
                 IF IsLatest(TRUE, log, e) /\ <<s, e>> \in links
                 THEN UpdateFromEvent(services[s], evs[e], e, s, links, evs)
                 ELSE services[s]]
        /\ \E s \in Monitored : last' = Ran("append", s, e)
        /\ UNCHANGED <<links, procs, plan>>

AppendUpdate(e, st, msg, ts) ==
    /\ Len(updates) < MaxUpdates
    /\ SaveUpdate(e, st, msg, ts)

\* event.services.add(service) -> m2m_changed post_add -> handle_event_m2m_save
LinkEvent(s, e) ==
    /\ <<s, e>> \notin links
    /\ links' = links \cup {<<s, e>>}
    /\ services' = [services EXCEPT
          ![s] = UpdateFromEvent(services[s], events[e], e, s, links', events)]
    /\ last' = Ran("link", s, e)
    /\ UNCHANGED <<events, updates, procs, plan>>

\* event.services.remove(service) -> m2m_changed post_remove -> handle_event_m2m_save
UnlinkEvent(s, e) ==
    /\ <<s, e>> \in links
    /\ links' = links \ {<<s, e>>}
    /\ services' = [services EXCEPT
          ![s] = UpdateFromEvent(services[s], events[e], e, s, links', events)]
    /\ last' = Ran("unlink", s, e)
    /\ UNCHANGED <<events, updates, procs, plan>>

Next ==
    \/ \E e \in Events, st \in Severity, msg \in Messages, ts \in Times :
          AppendUpdate(e, st, msg, ts)
    \/ \E s \in Monitored, e \in Events : LinkEvent(s, e)
    \/ \E s \in Monitored, e \in Events : UnlinkEvent(s, e)

Spec == Init /\ [][Next]_vars

\* EventUpdate.status is a SmallIntegerField: save() stores any small
\* integer, the choices are not checked by save() or by the handlers.
StoredStatuses == Severity \cup {3}

\* The serial operations, with updates saved through the model API
NextBoundary ==
    \/ \E e \in Events, st \in StoredStatuses, ts \in Times :
          AppendUpdate(e, st, "a", ts)
    \/ \E s \in Monitored, e \in Events : LinkEvent(s, e)
    \/ \E s \in Monitored, e \in Events : UnlinkEvent(s, e)

SpecBoundary == Init /\ [][NextBoundary]_vars

\* The serial operations with both services linked and unlinked
NextFrame ==
    \/ \E e \in Events, st \in Severity, ts \in {1, MaxTime} :
          AppendUpdate(e, st, "a", ts)
    \/ \E s \in Services, e \in Events : LinkEvent(s, e)
    \/ \E s \in Services, e \in Events : UnlinkEvent(s, e)

SpecFrame == Init /\ [][NextFrame]_vars

\* The serial operations on statuses alone: one message, one timestamp,
\* and a longer log
NextStatus ==
    \/ \E e \in Events, st \in Severity :
          Len(updates) < MaxStatusUpdates /\ SaveUpdate(e, st, "a", 1)
    \/ \E s \in Monitored, e \in Events : LinkEvent(s, e)
    \/ \E s \in Monitored, e \in Events : UnlinkEvent(s, e)

SpecStatus == Init /\ [][NextStatus]_vars

\* ------------------------------- operations, statement by statement
\* The thread has finished the service it was on: the loop of
\* handle_event_save / handle_event_m2m_save goes on, or the request ends.
Continue(pr, rest) ==
    IF rest = {}
    THEN Thread("done")
    ELSE [pr EXCEPT !.pc = "services", !.todo = rest,
                    !.s = "s1", !.self = NewService]

\* INSERT of the EventUpdate row
CInsert(p, e, st, msg, ts) ==
    /\ procs[p].pc = "idle"
    /\ updates' = Append(updates, NewUpdate(e, st, msg, ts))
    /\ procs' = [procs EXCEPT ![p] = [@ EXCEPT !.pc = "read_event",
                     !.upd = NewUpdate(e, st, msg, ts), !.epk = e]]
    /\ UNCHANGED <<events, services, links, last, plan>>

\* line 131: event = instance.event
CReadEvent(p) ==
    /\ procs[p].pc = "read_event"
    /\ procs' = [procs EXCEPT ![p] = [@ EXCEPT !.pc = "write_event",
                     !.ev = events[procs[p].epk]]]
    /\ UNCHANGED <<events, services, links, updates, last, plan>>

\* lines 133-157: the UPDATE of the event row and the setattr loop
CWriteEvent(p) ==
    LET pr == procs[p]
    IN  /\ pr.pc = "write_event"
        /\ IF IsLatest(TRUE, updates, pr.epk)
           THEN /\ events' = [events EXCEPT
                      ![pr.epk] = ApplyUpdateKwargs(events[pr.epk], pr.ev, pr.upd)]
                /\ procs' = [procs EXCEPT ![p] = [@ EXCEPT !.pc = "fetch_services",
                      !.ev = ApplyUpdateKwargs(pr.ev, pr.ev, pr.upd)]]
           ELSE /\ events' = events
                /\ procs' = [procs EXCEPT ![p] = Thread("done")]
        /\ UNCHANGED <<services, links, updates, last, plan>>

\* line 60: instance.services.all()
CFetchServices(p) ==
    LET pr == procs[p]
        linked == {s \in Services : <<s, pr.epk>> \in links}
    IN  /\ pr.pc = "fetch_services"
        /\ procs' = [procs EXCEPT ![p] =
              Continue([pr EXCEPT !.loaded = services], linked)]
        /\ UNCHANGED <<events, services, links, updates, last, plan>>

\* event.services.add(service): the INSERT of the link row, then line 52
\* loads the service; the event instance is the caller's
CLink(p, s, e) ==
    /\ procs[p].pc = "idle"
    /\ <<s, e>> \notin links
    /\ links' = links \cup {<<s, e>>}
    /\ procs' = [procs EXCEPT ![p] = [@ EXCEPT !.pc = "services",
                     !.epk = e, !.ev = events[e], !.todo = {s},
                     !.loaded = services]]
    /\ UNCHANGED <<events, services, updates, last, plan>>

\* event.services.remove(service): the DELETE of the link row, then line 52
CUnlink(p, s, e) ==
    /\ procs[p].pc = "idle"
    /\ <<s, e>> \in links
    /\ links' = links \ {<<s, e>>}
    /\ procs' = [procs EXCEPT ![p] = [@ EXCEPT !.pc = "services",
                     !.epk = e, !.ev = events[e], !.todo = {s},
                     !.loaded = services]]
    /\ UNCHANGED <<events, services, updates, last, plan>>

\* lines 64-69 of update_from_event for the next service of the loop
CSvcDate(p, s) ==
    LET pr == procs[p]
        self == pr.loaded[s]
    IN  /\ pr.pc = "services"
        /\ s \in pr.todo
        /\ services' = [services EXCEPT ![s] = DateRow(services[s], self, pr.ev)]
        /\ procs' = [procs EXCEPT ![p] = [@ EXCEPT !.pc = "svc_status",
                         !.s = s, !.self = DateSelf(self, pr.ev)]]
        /\ UNCHANGED <<events, links, updates, last, plan>>

\* lines 71-82: the raise, or the existence query of the decrease path
CSvcStatus(p) ==
    LET pr == procs[p]
        ex == OtherEventExists(links, events, pr.s, pr.self.status, pr.epk)
    IN  /\ pr.pc = "svc_status"
        /\ services' = [services EXCEPT
              ![pr.s] = RaiseRow(services[pr.s], pr.self, pr.ev)]
        /\ procs' = [procs EXCEPT ![p] =
              IF Lowers(pr.self, pr.ev, ex)
              THEN [pr EXCEPT !.pc = "svc_lower"]
              ELSE Continue(pr, pr.todo \ {pr.s})]
        /\ UNCHANGED <<events, links, updates, last, plan>>

\* lines 83-85: the UPDATE of the decrease path
CSvcLower(p) ==
    LET pr == procs[p]
    IN  /\ pr.pc = "svc_lower"
        /\ services' = [services EXCEPT
              ![pr.s] = LowerRow(services[pr.s], pr.self, pr.ev, FALSE)]
        /\ procs' = [procs EXCEPT ![p] = Continue(pr, pr.todo \ {pr.s})]
        /\ UNCHANGED <<events, links, updates, last, plan>>

NextConc ==
    \/ \E p \in Procs, e \in Events, st \in Severity, ts \in Times :
          CInsert(p, e, st, "a", ts)
    \/ \E p \in Procs : CReadEvent(p)
    \/ \E p \in Procs : CWriteEvent(p)
    \/ \E p \in Procs : CFetchServices(p)
    \/ \E p \in Procs, s \in Monitored, e \in Events : CLink(p, s, e)
    \/ \E p \in Procs, s \in Monitored, e \in Events : CUnlink(p, s, e)
    \/ \E p \in Procs, s \in Services : CSvcDate(p, s)
    \/ \E p \in Procs : CSvcStatus(p)
    \/ \E p \in Procs : CSvcLower(p)

\* The database the two requests start from: every event is new or has had
\* one update at time 1, and was then linked to the services of `lk`.
EventAfter(st) ==
    IF st = 0 THEN NewEvent
    ELSE ApplyUpdateKwargs(NewEvent, NewEvent, NewUpdate("e1", st, "a", 1))

LogAfter(hist) ==
    LET row(e) == IF hist[e] = 0 THEN <<>> ELSE <<NewUpdate(e, hist[e], "a", 1)>>
    IN  row("e1") \o row("e2")

ServiceAfter(s, lk, evs) ==
    LET mine == {e \in Events : <<s, e>> \in lk}
    IN  [status |-> Max({0} \cup {evs[e].status : e \in mine}),
         date_updated |-> Max({0} \cup {evs[e].date_updated : e \in mine})]

InitConc ==
    \E hist \in [Events -> Severity], lk \in SUBSET (Monitored \X Events) :
        /\ events = [e \in Events |-> EventAfter(hist[e])]
        /\ updates = LogAfter(hist)
        /\ links = lk
        /\ services = [s \in Services |-> ServiceAfter(s, lk, events)]
        /\ procs = [p \in Procs |-> Thread("idle")]
        /\ last = NoOp
        /\ plan = NoPlan

SpecConc == InitConc /\ [][NextConc]_vars

\* Two requests on different events, from the same prepared databases: each
\* request is given one operation, an update appended to its event or the
\* link or unlink of that event, whichever the link table allows.
RaceOps(e, lk) ==
    {[kind |-> "append", s |-> s, e |-> e, st |-> st] :
        s \in Monitored, st \in Severity}
    \cup {[kind |-> IF <<s, e>> \in lk THEN "unlink" ELSE "link",
           s |-> s, e |-> e, st |-> 0] : s \in Monitored}

InitRace ==
    \E hist \in [Events -> Severity], lk \in SUBSET (Monitored \X Events) :
      \E o1 \in RaceOps("e1", lk), o2 \in RaceOps("e2", lk) :
        /\ events = [e \in Events |-> EventAfter(hist[e])]
        /\ updates = LogAfter(hist)
        /\ links = lk
        /\ services = [s \in Services |-> ServiceAfter(s, lk, events)]
        /\ procs = [p \in Procs |-> Thread("idle")]
        /\ last = NoOp
        /\ plan = [db  |-> [events |-> events, services |-> services,
                            links |-> lk],
                   ops |-> [p \in Procs |-> IF p = "p1" THEN o1 ELSE o2]]

NextRace ==
    \/ \E p \in Procs :
          /\ plan.ops[p].kind = "append"
          /\ CInsert(p, plan.ops[p].e, plan.ops[p].st, "a", 1)
    \/ \E p \in Procs : CReadEvent(p)
    \/ \E p \in Procs : CWriteEvent(p)
    \/ \E p \in Procs : CFetchServices(p)
    \/ \E p \in Procs :
          /\ plan.ops[p].kind = "link"
          /\ CLink(p, plan.ops[p].s, plan.ops[p].e)
    \/ \E p \in Procs :
          /\ plan.ops[p].kind = "unlink"
          /\ CUnlink(p, plan.ops[p].s, plan.ops[p].e)
    \/ \E p \in Procs, s \in Services : CSvcDate(p, s)
    \/ \E p \in Procs : CSvcStatus(p)
    \/ \E p \in Procs : CSvcLower(p)

SpecRace == InitRace /\ [][NextRace]_vars

\* One whole operation applied to a database [events, services, links]: the
\* handlers of lines 129-160 and 44-61 run from start to end by one request
DbAppend(db, e, st) ==
    LET upd == NewUpdate(e, st, "a", 1)
        evs == [db.events EXCEPT
                  ![e] = ApplyUpdateKwargs(db.events[e], db.events[e], upd)]
    IN  [db EXCEPT
           !.events = evs,
           !.services =
              [s \in Services |->
                 IF <<s, e>> \in db.links
                 THEN UpdateFromEvent(db.services[s], evs[e], e, s, db.links, evs)
                 ELSE db.services[s]]]

DbLink(db, s, e) ==
    LET lk == db.links \cup {<<s, e>>}
    IN  [db EXCEPT
           !.links = lk,
           !.services[s] =
              UpdateFromEvent(db.services[s], db.events[e], e, s, lk, db.events)]

DbUnlink(db, s, e) ==
    LET lk == db.links \ {<<s, e>>}
    IN  [db EXCEPT
           !.links = lk,
           !.services[s] =
              UpdateFromEvent(db.services[s], db.events[e], e, s, lk, db.events)]

DbRun(db, op) ==
    CASE op.kind = "append" -> DbAppend(db, op.e, op.st)
      [] op.kind = "link"   -> DbLink(db, op.s, op.e)
      [] op.kind = "unlink" -> DbUnlink(db, op.s, op.e)

\* ================================================================ claims
LinkedTo(s) == {e \in Events : <<s, e>> \in links}

MaxLinkedStatus(s) == Max({0} \cup {events[e].status : e \in LinkedTo(s)})

\* The statuses of the updates of e that carry its greatest creation timestamp
LatestStatuses(e) ==
    LET rows == UpdatesOf(updates, e)
    IN  {rows[i].status : i \in {k \in 1..Len(rows) :
            \A j \in 1..Len(rows) : rows[j].date_created <= rows[k].date_created}}

MaxAppendedStatus(e) ==
    LET rows == UpdatesOf(updates, e)
    IN  Max({0} \cup {rows[i].status : i \in 1..Len(rows)})

AllDone == \A p \in Procs : procs[p].pc = "done"

\* C1: after any sequence of appendUpdate operations, with creation
\* timestamps in any order, event.status is the status of the update with
\* the greatest creation timestamp appended so far.
C1_StatusOfLatestUpdate ==
    \A e \in Events :
        UpdatesOf(updates, e) # <<>> => events[e].status \in LatestStatuses(e)

\* C2: after any sequence of link, unlink and appendUpdate operations run one
\* at a time, every service's status is the maximum status of the events
\* linked to it, and None(0) when no event is linked.
C2_ServiceStatusIsMaxLinked ==
    \A s \in Services : services[s].status = MaxLinkedStatus(s)

\* C3: unlinkEvent(S, E), when E was the only linked event whose status
\* equalled S.status, leaves S.status at the maximum status of the events
\* still linked, or None(0) if none remains.
C3_UnlinkLowersToRemainingMax ==
    ( /\ last.op = "unlink"
      /\ events[last.e].status = last.was
      /\ ~\E e \in LinkedTo(last.s) : events[e].status = last.was )
    => services[last.s].status = MaxLinkedStatus(last.s)

\* C4: while an event with status Unavailable(2) is linked to a service, the
\* service's status is Unavailable(2).
C4_UnavailableWhileLinked ==
    \A s \in Services : \A e \in LinkedTo(s) :
        events[e].status = 2 => services[s].status = 2

\* C4 witness: an Unavailable event and a better one are linked to the same
\* service, and the operation that ran last was a trigger for the better one.
C4_Witness ==
    \E s \in Services : \E e1 \in LinkedTo(s), e2 \in LinkedTo(s) :
        /\ events[e1].status = 2
        /\ events[e2].status < 2
        /\ last.e = e2 /\ last.op \in {"link", "append"}
        /\ services[s].status = 2

\* C5: event.peakStatus never decreases from one state to the next, and is
\* the maximum status over all updates ever appended to the event (None(0)
\* if none).
C5_PeakStatusIsMaxAppended ==
    /\ [](\A e \in Events : events[e].peak_status = MaxAppendedStatus(e))
    /\ [][\A e \in Events : events'[e].peak_status >= events[e].peak_status]_vars

\* C5 witness: an update below the peak has been appended, and the peak stayed.
C5_Witness ==
    \E e \in Events :
        /\ last.op = "append" /\ last.e = e
        /\ events[e].status < events[e].peak_status
        /\ events[e].peak_status = 2

\* C6: linkEvent(S, E) with E.status > S.status leaves S.status = E.status
\* when the link operation completes.
C6_LinkRaisesService ==
    (last.op = "link" /\ events[last.e].status > last.was)
    => services[last.s].status = events[last.e].status

\* C6 witness: a link of a worse event has just run, on a service that
\* was already above None(0).
C6_Witness ==
    /\ last.op = "link"
    /\ last.was = 1
    /\ events[last.e].status = 2
    /\ services[last.s].status = 2

\* C7 (as claimed): the description is written once, by the first update, and
\* no later appendUpdate changes it, also when the first message is empty.
C7_DescriptionFromFirstUpdate ==
    \A e \in Events :
        LET rows == UpdatesOf(updates, e)
        IN  rows # <<>> => events[e].description = rows[1].message

\* C7 (amended): the description is the message of the first update with a
\* non-empty message (empty while there is none), and a non-empty description
\* is never changed by an appendUpdate.
C7_DescriptionFromFirstNonEmpty ==
    /\ [](\A e \in Events :
            LET rows == UpdatesOf(updates, e)
                full == {i \in 1..Len(rows) : ~Falsy(rows[i].message)}
            IN  IF full = {}
                THEN events[e].description = (IF rows = <<>> THEN Null ELSE "")
                ELSE events[e].description =
                        rows[CHOOSE i \in full : \A j \in full : i <= j].message)
    /\ [][\A e \in Events :
            ~Falsy(events[e].description)
               => events'[e].description = events[e].description]_vars

\* C7 witness: the first update's message was empty, the second one's was
\* not, and the description is the second one's.
C7_Witness ==
    \E e \in Events :
        LET rows == UpdatesOf(updates, e)
        IN  /\ Len(rows) = 2
            /\ rows[1].message = "" /\ rows[2].message = "a"
            /\ events[e].description = "a"

\* C8: for a service linked to exactly one event, after every appendUpdate
\* on that event the service's status equals the event's status, and the
\* event's peakStatus is the highest status appended.
C8_SingleEventServiceFollows ==
    (last.op = "append" /\ LinkedTo(last.s) = {last.e})
    => /\ services[last.s].status = events[last.e].status
       /\ events[last.e].peak_status = MaxAppendedStatus(last.e)

\* C8 witness: the single linked event has just fallen below its peak and
\* the service has fallen with it.
C8_Witness ==
    /\ last.op = "append" /\ LinkedTo(last.s) = {last.e}
    /\ Len(UpdatesOf(updates, last.e)) = 2
    /\ last.was = 2
    /\ events[last.e].status = 1
    /\ events[last.e].peak_status = 2
    /\ services[last.s].status = 1

\* C9: the stored service.lastChanged never decreases, in any interleaving
\* of concurrent triggers; a trigger changes it only to its event's
\* lastChanged, and only when that is strictly greater.
C9_ServiceDateMonotonic ==
    [][\A s \in Services :
          /\ services'[s].date_updated >= services[s].date_updated
          /\ services'[s].date_updated # services[s].date_updated
             => \E p \in Procs :
                  /\ procs[p].pc = "services" /\ s \in procs[p].todo
                  /\ services'[s].date_updated = procs[p].ev.date_updated
                  /\ procs[p].ev.date_updated > services[s].date_updated]_vars

\* C9 witness: a trigger holding a stale service instance has run its
\* timestamp step after a concurrent trigger stored a later timestamp.
C9_Witness ==
    \E p \in Procs :
        /\ procs[p].pc = "svc_status"
        /\ procs[p].ev.date_updated > procs[p].loaded[procs[p].s].date_updated
        /\ procs[p].self.date_updated < services[procs[p].s].date_updated

\* C10: when appendUpdate operations on one event run concurrently, the
\* event's final status is the status of the update with the greatest
\* creation timestamp.  Stated for the runs in which the updates were
\* inserted in the order of their timestamps, where running the requests one
\* after the other gives that status.
C10_ConcurrentAppendsKeepLatest ==
    \A e \in Events :
        LET rows == UpdatesOf(updates, e)
        IN  ( /\ AllDone
              /\ rows # <<>>
              /\ \A i, j \in 1..Len(rows) :
                    i < j => rows[i].date_created <= rows[j].date_created )
            => events[e].status \in LatestStatuses(e)

\* C11 (as claimed): an appendUpdate with a status outside {0, 1, 2} is
\* rejected before any mutation: no such update is recorded and no event or
\* service takes such a status.
C11_InvalidStatusRejected ==
    /\ \A i \in 1..Len(updates) : updates[i].status \in Severity
    /\ \A e \in Events : events[e].status \in Severity
                         /\ events[e].peak_status \in Severity
    /\ \A s \in Services : services[s].status \in Severity

\* The operation that ran last ran update_from_event(last.e) on last.s
TriggerRan ==
    \/ last.op \in {"link", "unlink"}
    \/ last.op = "append" /\ <<last.s, last.e>> \in links

\* C12 (as claimed): appending an update whose creation timestamp is older
\* than that of an existing update of the same event changes no aggregate
\* field of any event or service.
C12_OlderUpdateChangesNothing ==
    [][ LET n == Len(updates')
        IN  ( /\ n = Len(updates) + 1
              /\ \E i \in 1..Len(updates) :
                    /\ updates[i].event = updates'[n].event
                    /\ updates[i].date_created > updates'[n].date_created )
            => (events' = events /\ services' = services) ]_vars

\* C13: when a trigger for (S, E) runs with E.status < S.status, S.status is
\* unchanged if another event linked to S has status S.status, and is lowered
\* to E.status otherwise.
C13_DecreaseOnlyWithoutOther ==
    (TriggerRan /\ events[last.e].status < last.was)
    => IF \E e \in LinkedTo(last.s) \ {last.e} : events[e].status = last.was
       THEN services[last.s].status = last.was
       ELSE services[last.s].status = events[last.e].status

\* C13 witness: a trigger ran with a better event while another linked event
\* still had the service's status, and the service kept it.
C13_Witness ==
    /\ TriggerRan
    /\ events[last.e].status < last.was
    /\ \E e \in LinkedTo(last.s) \ {last.e} : events[e].status = last.was
    /\ services[last.s].status = last.was

\* C15 (as claimed): when appendUpdate operations on one event run
\* concurrently, the stored peakStatus never decreases and ends at the
\* maximum of the appended statuses.
C15_ConcurrentPeakStatus ==
    /\ [][\A e \in Events : events'[e].peak_status >= events[e].peak_status]_vars
    /\ [](AllDone => \A e \in Events : events[e].peak_status = MaxAppendedStatus(e))

\* The database left by the two planned operations run one after the other
SerialOutcome(first, second) ==
    DbRun(DbRun(plan.db, plan.ops[first]), plan.ops[second])

\* C14: two triggering operations on one service that run concurrently (on
\* two different events) leave the service, in every interleaving of their
\* steps, with the status that one of the two serial orders produces.
C14_ConcurrentTriggersSerializable ==
    AllDone
    => \A s \in Monitored :
          services[s].status \in
             { SerialOutcome("p1", "p2").services[s].status,
               SerialOutcome("p2", "p1").services[s].status }

\* C16: appendUpdate on E leaves every other event's fields and every
\* service not linked to E unchanged; linkEvent(S, E) and unlinkEvent(S, E)
\* leave every event's fields and every service other than S unchanged.
C16_OperationsFrame ==
    [][ /\ last'.op = "append"
           => /\ \A e \in Events \ {last'.e} : events'[e] = events[e]
              /\ \A s \in Services :
                    <<s, last'.e>> \notin links => services'[s] = services[s]
        /\ last'.op \in {"link", "unlink"}
           => /\ events' = events
              /\ \A s \in Services \ {last'.s} : services'[s] = services[s] ]_vars

\* C16 witness: an update has just been appended to an event linked to one
\* service and not to the other, which is linked to the other event and
\* has kept a different status.
C16_Witness ==
    /\ last.op = "append"
    /\ <<"s1", last.e>> \in links /\ <<"s2", last.e>> \notin links
    /\ LinkedTo("s2") # {}
    /\ services["s1"].status = events[last.e].status
    /\ services["s2"].status # services["s1"].status

\* C17: unlinkEvent(S, E) never raises S.status: the status of S after the
\* unlink is at most its status before.
C17_UnlinkNeverRaises ==
    last.op = "unlink" => services[last.s].status <= last.was

\* C18: every event satisfies peakStatus >= status.
C18_PeakAtLeastStatus ==
    \A e \in Events : events[e].peak_status >= events[e].status

\* C18 witness: an event whose status rose with its second update.
C18_Witness ==
    \E e \in Events :
        LET rows == UpdatesOf(updates, e)
        IN  /\ Len(rows) = 2
            /\ rows[1].status = 1 /\ rows[2].status = 2
            /\ events[e].status = 2 /\ events[e].peak_status = 2

\* C19: for every linked pair (S, E), S.lastChanged >= E.lastChanged.
C19_ServiceDateCoversLinkedEvents ==
    \A s \in Services : \A e \in LinkedTo(s) :
        services[s].date_updated >= events[e].date_updated

\* C19 witness: an update has just been appended to a linked event and the
\* service's timestamp has followed it.
C19_Witness ==
    /\ last.op = "append" /\ <<last.s, last.e>> \in links
    /\ events[last.e].date_updated = 2
    /\ services[last.s].date_updated = 2

\* C20: running the trigger for the same (service, event) pair again, with
\* no change in between, leaves the service's status and lastChanged as the
\* first run left them.
C20_TriggerIdempotent ==
    TriggerRan
    => UpdateFromEvent(services[last.s], events[last.e], last.e, last.s,
                       links, events) = services[last.s]

\* C20 witness: the first run of the trigger changed the service's status.
C20_Witness ==
    /\ TriggerRan
    /\ services[last.s].status # last.was
    /\ services[last.s].date_updated > 0

====
